---- MODULE Spec2Model ----
(***************************************************************************)
(* Model of src/home_installation.py: the HomeInstallation kiosk.          *)
(*                                                                         *)
(* The object's fields are the variables.  Every method is an operator    *)
(* from a state record (and the environment's answers for this call) to   *)
(* the state record after the call, so that a handler that calls other    *)
(* methods is the composition of their operators.  Time is the wall clock *)
(* in whole seconds; time.sleep(n) adds n to it.                          *)
(***************************************************************************)
EXTENDS Integers, Sequences, FiniteSets, TLC

VARIABLES
    config,                 \* PROMPT_TIME, RECORDING_TIME, THANKYOU_TIME as configured
    current_state,          \* State enum value
    state_start_time,       \* time.time() at the last phase entry
    can_finish_early,
    camera,                 \* TRUE iff self.camera is an opened capture
    recording_process,      \* "None", or the state of the process the handle names
    current_recording_path, \* None or Some(timestamp of the file name)
    recording_status,
    recorded_videos,        \* the library: sequence of paths
    current_playback_index,
    current_playback_video, \* None or Some(path)
    playback_cap,           \* "None" or "Open"
    audio_process,          \* "None", or the state of the process the handle names
    video_start_time,       \* None or Some(time)
    switching_video,
    video_fps,              \* frame rate of the file opened last
    last_playback_frame,    \* None until a frame is decoded, then Some(frame)
    store,                  \* recordings directory: path -> file
    now,                    \* wall clock, seconds
    lost_captures,          \* live ffmpeg processes no handle names any more
    lost_audio,             \* live ffplay processes no handle names any more
    lost_caps,              \* decode streams overwritten without release()
    calls,                  \* methods and external calls made by the last handler
    examined,               \* what the last handler's stop_recording found at its target
    listed,                 \* the .mp4 files the last handler's scan found in the directory
    drawn,                  \* what the last handler drew on self.screen
    synced,                 \* what the last handler's frame synchronisation saw and did
    inputs,                 \* inputs consumed so far: key events, or direct calls
    running,                \* run()'s loop variable
    pc                      \* position in run(): events, timeout, render, cleanup, done

vars == <<config, current_state, state_start_time, can_finish_early, camera,
          recording_process, current_recording_path, recording_status,
          recorded_videos, current_playback_index, current_playback_video,
          playback_cap, audio_process, video_start_time, switching_video,
          video_fps, last_playback_frame,
          store, now, lost_captures, lost_audio, lost_caps, calls, examined,
          listed, drawn, synced, inputs, running, pc>>

\* ---------------------------------------------------------------- bounds
MaxClock == 44
MaxWait == 1
MaxIdle == 2
MaxInputs == 2
MaxFiles == 2
MaxApiClock == 6
MaxApiCalls == 4
MaxScanFiles == 3
MaxLiveClock == 52
MaxLiveInputs == 1
MaxSyncClock == 4
MaxSyncCalls == 5
MaxConfClock == 3
MaxConfInputs == 3
MaxVisitClock == 9
MaxVisitInputs == 3
MaxVisitWait == 3
MaxVisitFiles == 3
MaxPosClock == 3
MaxPosCalls == 7
MaxCycleClock == 4

\* Frame rates of the stored files: none reported, 6 and 30 frames per second.
FrameRates == {0, 6, 30}

\* Frames the decoder is behind the clock's target; negative when it is ahead.
Lags == -3 .. 7

\* ------------------------------------------------------ program constants
RECORDING_TIME == 30
PROMPT_TIME == 3
THANKYOU_TIME == 2
VALID_MIN_SIZE == 1000
SAVE_MIN_SIZE == 1000
FFMPEG_START_SLEEP == 2
STOP_COMMUNICATE_TIMEOUT == 10
STOP_FINALIZE_SLEEP == 1
AUDIO_START_SLEEP == 1
AUDIO_WAIT_TIMEOUT == 1
DEFAULT_FPS == 30
SKIP_THRESHOLD == 5
WAIT_THRESHOLD == 1
CLEANUP_WAIT_TIMEOUT == 2

\* The phase durations as the class defines them.
DefaultConfig ==
    [PROMPT_TIME |-> PROMPT_TIME, RECORDING_TIME |-> RECORDING_TIME,
     THANKYOU_TIME |-> THANKYOU_TIME]

\* ------------------------------------------------------------ optionals
None == <<>>
Some(x) == <<x>>
Get(o) == o[1]

\* The object as one record.
Self ==
    [config |-> config,
     current_state |-> current_state, state_start_time |-> state_start_time,
     can_finish_early |-> can_finish_early, camera |-> camera,
     recording_process |-> recording_process,
     current_recording_path |-> current_recording_path,
     recording_status |-> recording_status, recorded_videos |-> recorded_videos,
     current_playback_index |-> current_playback_index,
     current_playback_video |-> current_playback_video,
     playback_cap |-> playback_cap, audio_process |-> audio_process,
     video_start_time |-> video_start_time, switching_video |-> switching_video,
     video_fps |-> video_fps,
     last_playback_frame |-> last_playback_frame,
     store |-> store, now |-> now, lost_captures |-> lost_captures,
     lost_audio |-> lost_audio, lost_caps |-> lost_caps, calls |-> calls,
     examined |-> examined, listed |-> listed, drawn |-> drawn,
     synced |-> synced]

Commit(r) ==
    /\ config' = r.config
    /\ current_state' = r.current_state
    /\ state_start_time' = r.state_start_time
    /\ can_finish_early' = r.can_finish_early
    /\ camera' = r.camera
    /\ recording_process' = r.recording_process
    /\ current_recording_path' = r.current_recording_path
    /\ recording_status' = r.recording_status
    /\ recorded_videos' = r.recorded_videos
    /\ current_playback_index' = r.current_playback_index
    /\ current_playback_video' = r.current_playback_video
    /\ playback_cap' = r.playback_cap
    /\ audio_process' = r.audio_process
    /\ video_start_time' = r.video_start_time
    /\ switching_video' = r.switching_video
    /\ video_fps' = r.video_fps
    /\ last_playback_frame' = r.last_playback_frame
    /\ store' = r.store
    /\ now' = r.now
    /\ lost_captures' = r.lost_captures
    /\ lost_audio' = r.lost_audio
    /\ lost_caps' = r.lost_caps
    /\ calls' = r.calls
    /\ examined' = r.examined
    /\ listed' = r.listed
    /\ drawn' = r.drawn
    /\ synced' = r.synced

Call(s, name) == [s EXCEPT !.calls = Append(@, name)]
Called(name) == \E i \in 1..Len(calls) : calls[i] = name
Sleep(s, n) == [s EXCEPT !.now = @ + n]

\* An exception no handler catches was raised during the call.
Raised(s) == \E i \in 1..Len(s.calls) : s.calls[i] = "IndexError"

\* ------------------------------------------------------------ the files
\* A file of the recordings directory: modification time, size in bytes,
\* and whether OpenCV can open it and read a first frame.
FileSizes == {999, 1000, 1001}
File(m, sz, d) == [mtime |-> m, size |-> sz, decodable |-> d]

\* is_video_file_valid: a missing file makes getsize raise, which is caught.
is_video_file_valid(s, path) ==
    /\ path \in DOMAIN s.store
    /\ ~(s.store[path].size < VALID_MIN_SIZE)
    /\ s.store[path].decodable

\* video_files.sort(reverse=True) on (mtime, path) tuples.
Newer(st, p, q) ==
    \/ st[p].mtime > st[q].mtime
    \/ st[p].mtime = st[q].mtime /\ p > q

RECURSIVE SortNewestFirst(_, _)
SortNewestFirst(st, paths) ==
    IF paths = {} THEN <<>>
    ELSE LET top == CHOOSE p \in paths : \A q \in paths \ {p} : Newer(st, p, q)
         IN <<top>> \o SortNewestFirst(st, paths \ {top})

Restrict(f, S) == [x \in S |-> f[x]]

\* scan_recorded_videos that lists the valid files and removes nothing.
scan_recorded_videos_keeps_invalid(s0) ==
    LET s == Call(s0, "scan_recorded_videos")
        valid == {p \in DOMAIN s.store : is_video_file_valid(s, p)}
    IN [s EXCEPT !.listed = s.store,
                 !.recorded_videos = SortNewestFirst(s.store, valid)]

scan_recorded_videos(s0) ==
    LET s == Call(s0, "scan_recorded_videos")
        valid == {p \in DOMAIN s.store : is_video_file_valid(s, p)}
    IN [s EXCEPT !.listed = s.store,
                 !.store = Restrict(@, valid),
                 !.recorded_videos = SortNewestFirst(s.store, valid)]

\* ------------------------------------------------------------ recording
\* setup_camera: e.cam_ok is whether one of the camera indices opens and reads.
setup_camera(s0, e) ==
    LET s == Call(s0, "setup_camera")
    IN IF s.camera THEN s
       ELSE [s EXCEPT !.camera = e.cam_ok]

\* start_ffmpeg_recording: e.ffmpeg is "raise" when Popen raises, "dead" when the
\* process has exited by the poll() after the two-second sleep, "alive" otherwise.
\* The new handle overwrites the old one without looking at it.
start_ffmpeg_recording(s0, e) ==
    LET s == Call(s0, "start_ffmpeg_recording")
    IN IF e.ffmpeg = "raise" THEN s
       ELSE Sleep([Call(s, "Popen(ffmpeg)") EXCEPT
                    !.recording_process =
                        IF e.ffmpeg = "alive" THEN "Running" ELSE "Exited",
                    !.lost_captures =
                        IF s.recording_process = "Running" THEN @ + 1 ELSE @],
                  FFMPEG_START_SLEEP)

start_ffmpeg_recording_ok(s, e) == e.ffmpeg = "alive"

\* start_recording enabling the early finish before the capture is launched.
start_recording_flag_at_entry(s0, e) ==
    LET s1 == setup_camera([Call(s0, "start_recording") EXCEPT
                              !.can_finish_early = TRUE], e)
    IN IF ~s1.camera
       THEN [s1 EXCEPT !.recording_status = "No camera available"]
       ELSE LET s2 == [s1 EXCEPT !.current_recording_path = Some(s1.now)]
                s3 == start_ffmpeg_recording(s2, e)
            IN IF start_ffmpeg_recording_ok(s2, e)
               THEN [s3 EXCEPT !.recording_status = "Recording with audio",
                               !.can_finish_early = TRUE]
               ELSE [s3 EXCEPT !.recording_status = "FFmpeg required for recording"]

start_recording(s0, e) ==
    LET s1 == setup_camera(Call(s0, "start_recording"), e)
    IN IF ~s1.camera
       THEN [s1 EXCEPT !.recording_status = "No camera available"]
       ELSE LET s2 == [s1 EXCEPT !.current_recording_path = Some(s1.now)]
                s3 == start_ffmpeg_recording(s2, e)
            IN IF start_ffmpeg_recording_ok(s2, e)
               THEN [s3 EXCEPT !.recording_status = "Recording with audio",
                               !.can_finish_early = TRUE]
               ELSE [s3 EXCEPT !.recording_status = "FFmpeg required for recording"]

\* What the capture process leaves at the target path when it has exited:
\* e.file is None (it wrote nothing) or Some(<<size, decodable>>); the file's
\* modification time is the time of the exit.
WriteTarget(s, e) ==
    IF e.file = None \/ s.current_recording_path = None THEN s
    ELSE LET p == Get(s.current_recording_path)
             f == File(s.now, Get(e.file)[1], Get(e.file)[2])
         IN [s EXCEPT !.store = [q \in DOMAIN @ \cup {p} |->
                                    IF q = p THEN f ELSE @[q]]]

\* StopProcess with the handle dropped and no signal sent to the process.
StopProcess_drop(s, e) ==
    Sleep([s EXCEPT !.recording_process = "None",
                    !.lost_captures =
                        IF s.recording_process = "Running" THEN @ + 1 ELSE @],
          STOP_FINALIZE_SLEEP)

\* StopProcess killing a live capture at once, with no terminate and no wait.
StopProcess_kill_first(s, e) ==
    LET k == IF s.recording_process = "Running"
             THEN Call(s, "recording_process.kill")
             ELSE Call(s, "recording_process.terminate")
    IN Sleep([WriteTarget(k, e) EXCEPT !.recording_process = "None"],
             STOP_FINALIZE_SLEEP)

\* The handle branch of stop_recording: terminate, communicate(timeout=10),
\* kill and communicate on timeout; e.graceful is whether a live process
\* exits within the timeout.
StopProcess(s, e) ==
    LET t == Call(s, "recording_process.terminate")
        k == IF s.recording_process = "Running" /\ ~e.graceful
             THEN Call(Sleep(t, STOP_COMMUNICATE_TIMEOUT), "recording_process.kill")
             ELSE t
    IN Sleep([WriteTarget(k, e) EXCEPT !.recording_process = "None"],
             STOP_FINALIZE_SLEEP)

\* The target path of stop_recording and the file os.path.exists finds there,
\* once the capture has exited.
Unexamined == [path |-> None, file |-> None]
Examine(s) ==
    [s EXCEPT !.examined =
        [path |-> s.current_recording_path,
         file |-> IF s.current_recording_path # None
                     /\ Get(s.current_recording_path) \in DOMAIN s.store
                  THEN Some(s.store[Get(s.current_recording_path)])
                  ELSE None]]

\* stop_recording leaving a file that fails validation where it is.
stop_recording_keeps_corrupt(s0, e) ==
    LET s1 == [Call(s0, "stop_recording") EXCEPT !.can_finish_early = FALSE]
        s2 == Examine(IF s1.recording_process # "None"
                      THEN StopProcess(s1, e) ELSE s1)
        s3 ==
          IF s2.current_recording_path # None
             /\ Get(s2.current_recording_path) \in DOMAIN s2.store
          THEN LET p == Get(s2.current_recording_path)
               IN IF s2.store[p].size > SAVE_MIN_SIZE
                  THEN IF is_video_file_valid(s2, p)
                       THEN scan_recorded_videos(
                                [s2 EXCEPT !.recording_status = "Saved"])
                       ELSE [s2 EXCEPT
                               !.recording_status = "Recording corrupted, removed"]
                  ELSE [s2 EXCEPT
                          !.store = Restrict(@, DOMAIN @ \ {p}),
                          !.recording_status = "Recording failed - file too small"]
          ELSE [s2 EXCEPT !.recording_status = "Recording failed - no file created"]
    IN [s3 EXCEPT !.current_recording_path = None]

\* stop_recording rescanning the library before the capture process is stopped.
stop_recording_scan_first(s0, e) ==
    LET s1 == scan_recorded_videos(
                  [Call(s0, "stop_recording") EXCEPT !.can_finish_early = FALSE])
        s2 == Examine(IF s1.recording_process # "None"
                      THEN StopProcess(s1, e) ELSE s1)
        s3 ==
          IF s2.current_recording_path # None
             /\ Get(s2.current_recording_path) \in DOMAIN s2.store
          THEN LET p == Get(s2.current_recording_path)
               IN IF s2.store[p].size > SAVE_MIN_SIZE
                  THEN IF is_video_file_valid(s2, p)
                       THEN [s2 EXCEPT !.recording_status = "Saved"]
                       ELSE [s2 EXCEPT
                               !.store = Restrict(@, DOMAIN @ \ {p}),
                               !.recording_status = "Recording corrupted, removed"]
                  ELSE [s2 EXCEPT
                          !.store = Restrict(@, DOMAIN @ \ {p}),
                          !.recording_status = "Recording failed - file too small"]
          ELSE [s2 EXCEPT !.recording_status = "Recording failed - no file created"]
    IN [s3 EXCEPT !.current_recording_path = None]

\* stop_recording without the rescan after a saved recording.
stop_recording_no_rescan(s0, e) ==
    LET s1 == [Call(s0, "stop_recording") EXCEPT !.can_finish_early = FALSE]
        s2 == Examine(IF s1.recording_process # "None"
                      THEN StopProcess(s1, e) ELSE s1)
        s3 ==
          IF s2.current_recording_path # None
             /\ Get(s2.current_recording_path) \in DOMAIN s2.store
          THEN LET p == Get(s2.current_recording_path)
               IN IF s2.store[p].size > SAVE_MIN_SIZE
                  THEN IF is_video_file_valid(s2, p)
                       THEN [s2 EXCEPT !.recording_status = "Saved"]
                       ELSE [s2 EXCEPT
                               !.store = Restrict(@, DOMAIN @ \ {p}),
                               !.recording_status = "Recording corrupted, removed"]
                  ELSE [s2 EXCEPT
                          !.store = Restrict(@, DOMAIN @ \ {p}),
                          !.recording_status = "Recording failed - file too small"]
          ELSE [s2 EXCEPT !.recording_status = "Recording failed - no file created"]
    IN [s3 EXCEPT !.current_recording_path = None]

stop_recording(s0, e) ==
    LET s1 == [Call(s0, "stop_recording") EXCEPT !.can_finish_early = FALSE]
        s2 == Examine(IF s1.recording_process # "None"
                      THEN StopProcess(s1, e) ELSE s1)
        s3 ==
          IF s2.current_recording_path # None
             /\ Get(s2.current_recording_path) \in DOMAIN s2.store
          THEN LET p == Get(s2.current_recording_path)
               IN IF s2.store[p].size > SAVE_MIN_SIZE
                  THEN IF is_video_file_valid(s2, p)
                       THEN scan_recorded_videos(
                                [s2 EXCEPT !.recording_status = "Saved"])
                       ELSE [s2 EXCEPT
                               !.store = Restrict(@, DOMAIN @ \ {p}),
                               !.recording_status = "Recording corrupted, removed"]
                  ELSE [s2 EXCEPT
                          !.store = Restrict(@, DOMAIN @ \ {p}),
                          !.recording_status = "Recording failed - file too small"]
          ELSE [s2 EXCEPT !.recording_status = "Recording failed - no file created"]
    IN [s3 EXCEPT !.current_recording_path = None]

\* ------------------------------------------------------------- playback
\* stop_current_playback with the session's start time left in place.
stop_current_playback_keeps_time(s0, e) ==
    LET s1 == Call(s0, "stop_current_playback")
        s2 == IF s1.playback_cap # "None"
              THEN [Call(s1, "playback_cap.release") EXCEPT !.playback_cap = "None"]
              ELSE s1
        s3 == IF s2.audio_process # "None"
              THEN [Call(s2, "audio_process.terminate") EXCEPT
                      !.audio_process = "None"]
              ELSE s2
    IN [s3 EXCEPT !.current_playback_video = None,
                  !.video_start_time = Some(s3.now)]

\* stop_current_playback: release the decode stream; terminate the audio channel,
\* wait(timeout=1), kill when the wait raises; e.audio_graceful is whether a live
\* channel exits within the wait.
stop_current_playback(s0, e) ==
    LET s1 == Call(s0, "stop_current_playback")
        s2 == IF s1.playback_cap # "None"
              THEN [Call(s1, "playback_cap.release") EXCEPT !.playback_cap = "None"]
              ELSE s1
        t  == Call(s2, "audio_process.terminate")
        s3 == IF s2.audio_process # "None"
              THEN [(IF s2.audio_process = "Running" /\ ~e.audio_graceful
                     THEN Call(Sleep(t, AUDIO_WAIT_TIMEOUT), "audio_process.kill")
                     ELSE t)
                    EXCEPT !.audio_process = "None"]
              ELSE s2
    IN [s3 EXCEPT !.current_playback_video = None, !.video_start_time = None]

\* start_video_playback without the call of stop_current_playback.
start_video_playback_no_stop(s0, path, e) ==
    LET s1 == Call(s0, "start_video_playback")
    IN IF ~is_video_file_valid(s1, path) THEN s1
       ELSE
         LET s3 == [Call(s1, "VideoCapture") EXCEPT
                      !.playback_cap = "Open",
                      !.video_fps = IF e.fps = 0 THEN DEFAULT_FPS ELSE e.fps,
                      !.lost_caps = IF s1.playback_cap = "Open" THEN @ + 1 ELSE @]
             s4 == IF e.ffplay = "raise"
                   THEN [s3 EXCEPT
                           !.audio_process = "None",
                           !.lost_audio =
                               IF s3.audio_process = "Running" THEN @ + 1 ELSE @]
                   ELSE Sleep([Call(s3, "Popen(ffplay)") EXCEPT
                                 !.audio_process =
                                     IF e.ffplay = "alive" THEN "Running" ELSE "None",
                                 !.lost_audio =
                                     IF s3.audio_process = "Running"
                                     THEN @ + 1 ELSE @],
                              AUDIO_START_SLEEP)
         IN [s4 EXCEPT !.video_start_time = Some(s4.now),
                       !.current_playback_video = Some(path)]

\* start_video_playback: e.ffplay is "raise" when Popen raises, "dead" when the
\* channel has exited by the poll() after the one-second sleep, "alive" otherwise.
\* The file has just passed is_video_file_valid, so the decode stream opens;
\* e.fps is the frame rate the stream reports, 0 when it reports none.
start_video_playback(s0, path, e) ==
    LET s1 == Call(s0, "start_video_playback")
    IN IF ~is_video_file_valid(s1, path) THEN s1
       ELSE
         LET s2 == stop_current_playback(s1, e)
             s3 == [Call(s2, "VideoCapture") EXCEPT
                      !.playback_cap = "Open",
                      !.video_fps = IF e.fps = 0 THEN DEFAULT_FPS ELSE e.fps,
                      !.lost_caps = IF s2.playback_cap = "Open" THEN @ + 1 ELSE @]
             s4 == IF e.ffplay = "raise"
                   THEN [s3 EXCEPT
                           !.audio_process = "None",
                           !.lost_audio =
                               IF s3.audio_process = "Running" THEN @ + 1 ELSE @]
                   ELSE Sleep([Call(s3, "Popen(ffplay)") EXCEPT
                                 !.audio_process =
                                     IF e.ffplay = "alive" THEN "Running" ELSE "None",
                                 !.lost_audio =
                                     IF s3.audio_process = "Running"
                                     THEN @ + 1 ELSE @],
                              AUDIO_START_SLEEP)
         IN [s4 EXCEPT !.video_start_time = Some(s4.now),
                       !.current_playback_video = Some(path)]

start_video_playback_ok(s, path) == is_video_file_valid(s, path)

\* switch_to_next_video without the call of stop_current_playback.
switch_to_next_video_no_stop(s0, e) ==
    LET s1 == Call(s0, "switch_to_next_video")
    IN IF s1.recorded_videos = <<>> \/ s1.switching_video THEN s1
       ELSE [s1 EXCEPT
               !.current_playback_index = (@ + 1) % Len(s1.recorded_videos)]

\* switch_to_next_video adding one to the index without the modulo.
switch_to_next_video_no_wrap(s0, e) ==
    LET s1 == Call(s0, "switch_to_next_video")
    IN IF s1.recorded_videos = <<>> \/ s1.switching_video THEN s1
       ELSE LET s2 == stop_current_playback(
                          [s1 EXCEPT !.switching_video = TRUE], e)
            IN [s2 EXCEPT !.current_playback_index = @ + 1,
                          !.switching_video = FALSE]

\* switch_to_next_video leaving the index where it is.
switch_to_next_video_same_file(s0, e) ==
    LET s1 == Call(s0, "switch_to_next_video")
    IN IF s1.recorded_videos = <<>> \/ s1.switching_video THEN s1
       ELSE LET s2 == stop_current_playback(
                          [s1 EXCEPT !.switching_video = TRUE], e)
            IN [s2 EXCEPT
                  !.switching_video = FALSE]

switch_to_next_video(s0, e) ==
    LET s1 == Call(s0, "switch_to_next_video")
    IN IF s1.recorded_videos = <<>> \/ s1.switching_video THEN s1
       ELSE LET s2 == stop_current_playback(
                          [s1 EXCEPT !.switching_video = TRUE], e)
            IN [s2 EXCEPT
                  !.current_playback_index =
                      (@ + 1) % Len(s2.recorded_videos),
                  !.switching_video = FALSE]

check_if_video_ended(s0, e) ==
    LET s1 == Call(s0, "check_if_video_ended")
    IN IF s1.audio_process = "Exited"
       THEN switch_to_next_video(s1, e)
       ELSE s1

\* A decoded frame: where it comes from and whether it is mirrored left to right.
Frame(source) == [source |-> source, mirrored |-> FALSE]
flip(frame) == [frame EXCEPT !.mirrored = ~@]

\* The body of get_current_playback_frame once a stream is open.  The clock
\* counts whole seconds, so elapsed * fps is already an integer.
target_frame(s) == (s.now - Get(s.video_start_time)) * s.video_fps

\* playback_cap.get(CAP_PROP_POS_FRAMES): e.lag is how many frames the decoder
\* is behind the target when asked; a position is never negative.
current_frame(s, e) ==
    IF target_frame(s) - e.lag < 0 THEN 0 ELSE target_frame(s) - e.lag

\* What the synchronisation saw (target, current) and did: the position it
\* sought, whether it called read(), the position the decoder is left at and
\* the frame returned.
Synced(s, e, sought, did_read, left_at, frame) ==
    Some([target |-> target_frame(s), current |-> current_frame(s, e),
          sought |-> sought, read |-> did_read, position |-> left_at,
          returned |-> frame])

\* The synchronisation seeking only when more than six frames behind.
sync_frame_wide_skip(s, e) ==
    LET seek == target_frame(s) > current_frame(s, e) + SKIP_THRESHOLD + 1
        wait == ~seek /\ target_frame(s) < current_frame(s, e) - WAIT_THRESHOLD
        from == IF seek THEN target_frame(s) ELSE current_frame(s, e)
        s1 == IF seek THEN Call(s, "playback_cap.set") ELSE s
        s2 == Call(s1, "playback_cap.read")
        frame == Some(flip(Frame("file")))
    IN IF wait
       THEN Call([s EXCEPT
                    !.synced = Synced(s, e, None, FALSE, current_frame(s, e),
                                      s.last_playback_frame)],
                 "return last_playback_frame")
       ELSE IF ~e.eof
       THEN Call([s2 EXCEPT
                    !.last_playback_frame = frame,
                    !.synced = Synced(s, e, IF seek THEN Some(from) ELSE None,
                                      TRUE, from + 1, frame)],
                 "return frame")
       ELSE switch_to_next_video(
                [s2 EXCEPT
                   !.synced = Synced(s, e, IF seek THEN Some(from) ELSE None,
                                     TRUE, from, None)], e)

\* The synchronisation without the wait branch.
sync_frame_no_wait(s, e) ==
    LET seek == target_frame(s) > current_frame(s, e) + SKIP_THRESHOLD
        from == IF seek THEN target_frame(s) ELSE current_frame(s, e)
        s1 == IF seek THEN Call(s, "playback_cap.set") ELSE s
        s2 == Call(s1, "playback_cap.read")
        frame == Some(flip(Frame("file")))
    IN IF ~e.eof
       THEN Call([s2 EXCEPT
                    !.last_playback_frame = frame,
                    !.synced = Synced(s, e, IF seek THEN Some(from) ELSE None,
                                      TRUE, from + 1, frame)],
                 "return frame")
       ELSE switch_to_next_video(
                [s2 EXCEPT
                   !.synced = Synced(s, e, IF seek THEN Some(from) ELSE None,
                                     TRUE, from, None)], e)

\* The synchronisation returning None on a failed read without switching file.
sync_frame_keeps_file(s, e) ==
    LET seek == target_frame(s) > current_frame(s, e) + SKIP_THRESHOLD
        wait == ~seek /\ target_frame(s) < current_frame(s, e) - WAIT_THRESHOLD
        from == IF seek THEN target_frame(s) ELSE current_frame(s, e)
        s1 == IF seek THEN Call(s, "playback_cap.set") ELSE s
        s2 == Call(s1, "playback_cap.read")
        frame == Some(flip(Frame("file")))
    IN IF wait
       THEN Call([s EXCEPT
                    !.synced = Synced(s, e, None, FALSE, current_frame(s, e),
                                      s.last_playback_frame)],
                 "return last_playback_frame")
       ELSE IF ~e.eof
       THEN Call([s2 EXCEPT
                    !.last_playback_frame = frame,
                    !.synced = Synced(s, e, IF seek THEN Some(from) ELSE None,
                                      TRUE, from + 1, frame)],
                 "return frame")
       ELSE [s2 EXCEPT
               !.synced = Synced(s, e, IF seek THEN Some(from) ELSE None,
                                 TRUE, from, None)]

\* Lines 694-728: seek when the decoder is more than five frames behind, return
\* the cached frame when it is more than one frame ahead, otherwise read; a
\* frame read is mirrored, cached and returned, a failed read switches file.
sync_frame(s, e) ==
    LET seek == target_frame(s) > current_frame(s, e) + SKIP_THRESHOLD
        wait == ~seek /\ target_frame(s) < current_frame(s, e) - WAIT_THRESHOLD
        from == IF seek THEN target_frame(s) ELSE current_frame(s, e)
        s1 == IF seek THEN Call(s, "playback_cap.set") ELSE s
        s2 == Call(s1, "playback_cap.read")
        frame == Some(flip(Frame("file")))
    IN IF wait
       THEN Call([s EXCEPT
                    !.synced = Synced(s, e, None, FALSE, current_frame(s, e),
                                      s.last_playback_frame)],
                 "return last_playback_frame")
       ELSE IF ~e.eof
       THEN Call([s2 EXCEPT
                    !.last_playback_frame = frame,
                    !.synced = Synced(s, e, IF seek THEN Some(from) ELSE None,
                                      TRUE, from + 1, frame)],
                 "return frame")
       ELSE switch_to_next_video(
                [s2 EXCEPT
                   !.synced = Synced(s, e, IF seek THEN Some(from) ELSE None,
                                     TRUE, from, None)], e)

\* get_current_playback_frame: e.eof is whether playback_cap.read() fails (end of
\* stream or a decode failure).  The library is indexed from 0 in the source;
\* the lookup raises IndexError when the index is not below the length.
get_current_playback_frame(s0, e) ==
    LET s1 == Call(s0, "get_current_playback_frame")
    IN IF s1.recorded_videos = <<>> \/ s1.switching_video THEN s1
       ELSE IF s1.current_playback_video = None
               /\ ~(s1.current_playback_index < Len(s1.recorded_videos))
       THEN Call(s1, "IndexError")
       ELSE
         LET path == s1.recorded_videos[s1.current_playback_index + 1]
             s2 == IF s1.current_playback_video = None
                   THEN start_video_playback(s1, path, e)
                   ELSE s1
         IN IF s1.current_playback_video = None
               /\ ~start_video_playback_ok(s1, path)
            THEN s2
            ELSE IF s2.playback_cap # "None" /\ s2.video_start_time # None
                 THEN sync_frame(s2, e)
                 ELSE s2

\* get_current_playback_frame returned a frame, not None.
FrameReturned(s) ==
    /\ s.calls # <<>>
    /\ \/ s.calls[Len(s.calls)] = "return frame"
       \/ /\ s.calls[Len(s.calls)] = "return last_playback_frame"
          /\ s.last_playback_frame # None

\* render_idle_fallback: the live camera preview when the camera is open and
\* its read gives a frame, the text "Press SPACE to start" otherwise.
render_idle_fallback(s, e) ==
    [s EXCEPT !.drawn = IF s.camera /\ e.cam_ok THEN "camera preview"
                        ELSE "Press SPACE to start"]

\* -------------------------------------------------------- state machine
\* advance_state with RECORDING followed by IDLE.
advance_state_skips(s0, e) ==
    LET s1 == Call(s0, "advance_state")
        s2 == IF s1.current_state = "idle"
              THEN stop_current_playback(s1, e) ELSE s1
        s3 == CASE s2.current_state = "idle" ->
                     [s2 EXCEPT !.current_state = "prompt"]
                [] s2.current_state = "prompt" ->
                     start_recording([s2 EXCEPT !.current_state = "recording"], e)
                [] s2.current_state = "recording" ->
                     stop_recording([s2 EXCEPT !.current_state = "idle"], e)
                [] s2.current_state = "thankyou" ->
                     [s2 EXCEPT !.current_state = "idle"]
    IN [s3 EXCEPT !.state_start_time = s3.now]

\* advance_state without the stop on leaving idle.
advance_state_keeps_playback(s0, e) ==
    LET s1 == Call(s0, "advance_state")
        s2 == s1
        s3 == CASE s2.current_state = "idle" ->
                     [s2 EXCEPT !.current_state = "prompt"]
                [] s2.current_state = "prompt" ->
                     start_recording([s2 EXCEPT !.current_state = "recording"], e)
                [] s2.current_state = "recording" ->
                     stop_recording([s2 EXCEPT !.current_state = "thankyou"], e)
                [] s2.current_state = "thankyou" ->
                     [s2 EXCEPT !.current_state = "idle"]
    IN [s3 EXCEPT !.state_start_time = s3.now]

advance_state(s0, e) ==
    LET s1 == Call(s0, "advance_state")
        s2 == IF s1.current_state = "idle"
              THEN stop_current_playback(s1, e) ELSE s1
        s3 == CASE s2.current_state = "idle" ->
                     [s2 EXCEPT !.current_state = "prompt"]
                [] s2.current_state = "prompt" ->
                     start_recording([s2 EXCEPT !.current_state = "recording"], e)
                [] s2.current_state = "recording" ->
                     stop_recording([s2 EXCEPT !.current_state = "thankyou"], e)
                [] s2.current_state = "thankyou" ->
                     [s2 EXCEPT !.current_state = "idle"]
    IN [s3 EXCEPT !.state_start_time = s3.now]

\* check_state_timeout comparing with > where the source has >=.
check_state_timeout_strict(s0, e) ==
    LET s == Call(s0, "check_state_timeout")
        elapsed == s.now - s.state_start_time
    IN IF s.current_state = "prompt" /\ elapsed > s.config.PROMPT_TIME
       THEN advance_state(s, e)
       ELSE IF s.current_state = "recording" /\ elapsed > s.config.RECORDING_TIME
       THEN advance_state(s, e)
       ELSE IF s.current_state = "thankyou" /\ elapsed > s.config.THANKYOU_TIME
       THEN advance_state(s, e)
       ELSE s

\* check_state_timeout with a duration for IDLE too.
check_state_timeout_idle(s0, e) ==
    LET s == Call(s0, "check_state_timeout")
        elapsed == s.now - s.state_start_time
    IN IF s.current_state = "prompt" /\ elapsed >= s.config.PROMPT_TIME
       THEN advance_state(s, e)
       ELSE IF s.current_state = "recording" /\ elapsed >= s.config.RECORDING_TIME
       THEN advance_state(s, e)
       ELSE IF s.current_state \in {"thankyou", "idle"} /\ elapsed >= s.config.THANKYOU_TIME
       THEN advance_state(s, e)
       ELSE s

\* check_state_timeout without the THANKYOU branch.
check_state_timeout_no_thankyou(s0, e) ==
    LET s == Call(s0, "check_state_timeout")
        elapsed == s.now - s.state_start_time
    IN IF s.current_state = "prompt" /\ elapsed >= s.config.PROMPT_TIME
       THEN advance_state(s, e)
       ELSE IF s.current_state = "recording" /\ elapsed >= s.config.RECORDING_TIME
       THEN advance_state(s, e)
       ELSE s

check_state_timeout(s0, e) ==
    LET s == Call(s0, "check_state_timeout")
        elapsed == s.now - s.state_start_time
    IN IF s.current_state = "prompt" /\ elapsed >= s.config.PROMPT_TIME
       THEN advance_state(s, e)
       ELSE IF s.current_state = "recording" /\ elapsed >= s.config.RECORDING_TIME
       THEN advance_state(s, e)
       ELSE IF s.current_state = "thankyou" /\ elapsed >= s.config.THANKYOU_TIME
       THEN advance_state(s, e)
       ELSE s

\* render: only the IDLE branch changes the object's fields; what is drawn in
\* the other phases is named after the phase.
render(s0, e) ==
    LET s == Call(s0, "render")
        f == get_current_playback_frame(check_if_video_ended(s, e), e)
    IN IF s.current_state = "idle"
       THEN IF FrameReturned(f) THEN [f EXCEPT !.drawn = "playback"]
            ELSE render_idle_fallback(f, e)
       ELSE [s EXCEPT !.drawn = s.current_state]

\* The K_SPACE branch advancing from every phase.
handle_space_always(s0, e) == advance_state(Call(s0, "K_SPACE"), e)

\* handle_events, K_SPACE branch.
handle_space(s0, e) ==
    LET s == Call(s0, "K_SPACE")
    IN IF s.current_state = "idle" THEN advance_state(s, e)
       ELSE IF s.current_state = "recording" /\ s.can_finish_early
       THEN advance_state(s, e)
       ELSE s

\* The K_r branch without the call of stop_recording.
handle_reset_no_stop(s0, e) ==
    LET s1 == Call(s0, "K_r")
    IN [s1 EXCEPT !.current_state = "idle",
                  !.state_start_time = s1.now,
                  !.can_finish_early = FALSE]

\* handle_events, K_r branch.
handle_reset(s0, e) ==
    LET s1 == Call(s0, "K_r")
        s2 == IF s1.recording_process # "None" THEN stop_recording(s1, e) ELSE s1
    IN [s2 EXCEPT !.current_state = "idle",
                  !.state_start_time = s2.now,
                  !.can_finish_early = FALSE]

\* cleanup without the capture branch: only playback and the camera are seen to.
cleanup_leaves_capture(s0, e) ==
    LET s1 == stop_current_playback(Call(s0, "cleanup"), e)
    IN IF s1.camera
       THEN [Call(s1, "camera.release") EXCEPT !.camera = FALSE]
       ELSE s1

\* cleanup: the capture process is terminated, waited for two seconds and killed
\* when the wait raises; the handle is kept.  The camera is released.
cleanup(s0, e) ==
    LET s1 == stop_current_playback(Call(s0, "cleanup"), e)
        t  == Call(s1, "recording_process.terminate")
        s2 == IF s1.recording_process # "None"
              THEN [(IF s1.recording_process = "Running" /\ ~e.graceful
                     THEN Call(Sleep(t, CLEANUP_WAIT_TIMEOUT),
                               "recording_process.kill")
                     ELSE t)
                    EXCEPT !.recording_process = "Exited"]
              ELSE s1
    IN IF s2.camera
       THEN [Call(s2, "camera.release") EXCEPT !.camera = FALSE]
       ELSE s2

\* ---------------------------------------------------------- environment
\* What the world answers during one handler: the camera, the two external
\* programs, the file the capture leaves, the decoder.  The decoder is in step
\* with the clock (lag 0) except where SyncEnv says otherwise.
Env(cam, ff, gr, fl, ag, fp, eof, fps) ==
    [cam_ok : cam, ffmpeg : ff, graceful : gr, file : fl,
     audio_graceful : ag, ffplay : fp, eof : eof, fps : fps, lag : {0}]

Launch == {"raise", "dead", "alive"}

\* The capture writes a file only while the directory holds fewer than MaxFiles.
Outcomes(s) ==
    {None} \cup
    (IF s.current_recording_path # None
        /\ (Cardinality(DOMAIN s.store) < MaxFiles
            \/ Get(s.current_recording_path) \in DOMAIN s.store)
     THEN {Some(<<sz, d>>) : sz \in FileSizes, d \in BOOLEAN}
     ELSE {})

IfRunning(p) == IF p = "Running" THEN BOOLEAN ELSE {TRUE}

StartEnv(s) ==
    Env(IF s.camera THEN {TRUE} ELSE BOOLEAN, Launch, {TRUE}, {None},
        {TRUE}, {"alive"}, {FALSE}, {DEFAULT_FPS})

StopEnv(s) ==
    Env({TRUE}, {"alive"}, IfRunning(s.recording_process),
        IF s.recording_process # "None" THEN Outcomes(s) ELSE {None},
        {TRUE}, {"alive"}, {FALSE}, {DEFAULT_FPS})

PlayEnv(s) ==
    Env(IF s.camera /\ s.current_state = "idle" THEN BOOLEAN ELSE {TRUE},
        {"alive"}, {TRUE}, {None},
        IF s.recorded_videos # <<>> THEN BOOLEAN ELSE {TRUE},
        IF s.recorded_videos # <<>> THEN Launch ELSE {"alive"},
        IF s.recorded_videos # <<>> THEN BOOLEAN ELSE {FALSE},
        {DEFAULT_FPS})

\* The answers one render can depend on.  Outside IDLE nothing is asked.  In IDLE
\* the camera is read when open; with a library the decoder is read, ffplay is
\* launched when no file is playing or the audio channel has exited, and the
\* audio channel is stopped only when one is running or about to be launched.
RenderEnv(s) ==
    IF s.current_state # "idle" \/ s.recorded_videos = <<>>
    THEN Env(IF s.camera /\ s.current_state = "idle" THEN BOOLEAN ELSE {TRUE},
             {"alive"}, {TRUE}, {None}, {TRUE}, {"alive"}, {FALSE},
             {DEFAULT_FPS})
    ELSE LET starting == \/ s.current_playback_video = None
                         \/ s.audio_process = "Exited"
         IN Env(IF s.camera THEN BOOLEAN ELSE {TRUE},
                {"alive"}, {TRUE}, {None},
                IF starting \/ s.audio_process = "Running"
                THEN BOOLEAN ELSE {TRUE},
                IF starting THEN Launch ELSE {"alive"},
                BOOLEAN, {DEFAULT_FPS})

\* The answers of files of several frame rates, 0 from a file that reports none,
\* and of a decoder behind or ahead of the clock.
SyncEnv(s) ==
    [cam_ok : {TRUE}, ffmpeg : {"alive"}, graceful : {TRUE}, file : {None},
     audio_graceful : {TRUE}, ffplay : {"alive"}, eof : BOOLEAN,
     fps : FrameRates, lag : Lags]

QuietEnv(s) ==
    Env({TRUE}, {"alive"}, {TRUE}, {None}, IfRunning(s.audio_process),
        {"alive"}, {FALSE}, {DEFAULT_FPS})

CleanupEnv(s) ==
    Env({TRUE}, {"alive"}, IfRunning(s.recording_process), {None},
        IfRunning(s.audio_process), {"alive"}, {FALSE}, {DEFAULT_FPS})

\* The answers a handler started in state s can depend on.
HandlerEnv(s) ==
    CASE s.current_state = "idle" -> QuietEnv(s)
      [] s.current_state = "prompt" -> StartEnv(s)
      [] s.current_state = "recording" -> StopEnv(s)
      [] s.current_state = "thankyou" -> QuietEnv(s)

Fresh ==
    [Self EXCEPT !.calls = <<>>, !.examined = Unexamined, !.listed = <<>>,
                 !.drawn = "nothing", !.synced = None]

\* ------------------------------------------------------------ start-up
\* Files found in the recordings directory when the program starts: none, or
\* two playable ones and an undecodable one, named and written before the start.
InitialStores ==
    { <<>>,
      (-1 :> File(-1, 1001, TRUE)) @@ (-2 :> File(-2, 1000, TRUE))
          @@ (-3 :> File(-3, 1001, FALSE)) }

\* __init__: the fields' first values, then scan_recorded_videos.
Constructed(st) ==
    scan_recorded_videos(
        [config |-> DefaultConfig,
         current_state |-> "idle", state_start_time |-> 0,
         can_finish_early |-> FALSE, camera |-> FALSE,
         recording_process |-> "None", current_recording_path |-> None,
         recording_status |-> "Ready", recorded_videos |-> <<>>,
         current_playback_index |-> 0, current_playback_video |-> None,
         playback_cap |-> "None", audio_process |-> "None",
         video_start_time |-> None, switching_video |-> FALSE,
         video_fps |-> DEFAULT_FPS,
         last_playback_frame |-> None,
         store |-> st, now |-> 0, lost_captures |-> 0, lost_audio |-> 0,
         lost_caps |-> 0, calls |-> <<>>, examined |-> Unexamined,
         listed |-> <<>>, drawn |-> "nothing", synced |-> None])

Init ==
    /\ \E st \in InitialStores : 
          LET r == Constructed(st)
          IN /\ config = r.config
             /\ current_state = r.current_state
             /\ state_start_time = r.state_start_time
             /\ can_finish_early = r.can_finish_early
             /\ camera = r.camera
             /\ recording_process = r.recording_process
             /\ current_recording_path = r.current_recording_path
             /\ recording_status = r.recording_status
             /\ recorded_videos = r.recorded_videos
             /\ current_playback_index = r.current_playback_index
             /\ current_playback_video = r.current_playback_video
             /\ playback_cap = r.playback_cap
             /\ audio_process = r.audio_process
             /\ video_start_time = r.video_start_time
             /\ switching_video = r.switching_video
             /\ video_fps = r.video_fps
             /\ last_playback_frame = r.last_playback_frame
             /\ store = r.store
             /\ now = r.now
             /\ lost_captures = r.lost_captures
             /\ lost_audio = r.lost_audio
             /\ lost_caps = r.lost_caps
             /\ calls = r.calls
             /\ examined = r.examined
             /\ listed = r.listed
             /\ drawn = r.drawn
             /\ synced = r.synced
    /\ inputs = 0
    /\ running = TRUE
    /\ pc = "events"

\* ------------------------------------------------------- run(): the loop
\* The inputs the model follows: at most MaxInputs of them, each within MaxWait
\* seconds of the entry of the phase it arrives in.
InputArrives ==
    /\ pc = "events"
    /\ inputs < MaxInputs
    /\ now - state_start_time <= MaxWait

\* One event of pygame.event.get(): K_SPACE.
HandleSpace ==
    /\ InputArrives
    /\ \E e \in HandlerEnv(Self) :
          LET r == handle_space(Fresh, e)
          IN r.now <= MaxClock /\ Commit(r)
    /\ inputs' = inputs + 1
    /\ UNCHANGED <<running, pc>>

\* One event of pygame.event.get(): K_r.
HandleReset ==
    /\ InputArrives
    /\ \E e \in StopEnv(Self) :
          LET r == handle_reset(Fresh, e)
          IN r.now <= MaxClock /\ Commit(r)
    /\ inputs' = inputs + 1
    /\ UNCHANGED <<running, pc>>

\* QUIT or K_ESCAPE: handle_events returns False at once.
HandleQuit ==
    /\ InputArrives
    /\ Commit(Call(Fresh, "QUIT"))
    /\ running' = FALSE
    /\ pc' = "timeout"
    /\ inputs' = inputs + 1

\* The event queue is empty: handle_events returns True.
EventsDone ==
    /\ pc = "events"
    /\ Commit(Fresh)
    /\ pc' = "timeout"
    /\ UNCHANGED <<running, inputs>>

CheckStateTimeout ==
    /\ pc = "timeout"
    /\ \E e \in HandlerEnv(Self) :
          LET r == check_state_timeout(Fresh, e)
          IN r.now <= MaxClock /\ Commit(r)
    /\ pc' = "render"
    /\ UNCHANGED <<running, inputs>>

\* render, then clock.tick(60): the frame takes dt seconds.  An idle kiosk is
\* followed for MaxIdle seconds.  An exception raised in render leaves the loop
\* for the finally clause.
Render ==
    /\ pc = "render"
    /\ \E e \in RenderEnv(Self), dt \in {0, 1} :
          LET r == Sleep(render(Fresh, e), dt)
          IN /\ current_state = "idle" /\ r.now > now
                  => r.now - state_start_time <= MaxIdle
             /\ r.now <= MaxClock
             /\ Commit(r)
    /\ pc' = IF running /\ ~Raised([calls |-> calls']) THEN "events" ELSE "cleanup"
    /\ UNCHANGED <<running, inputs>>

\* The finally clause of run().
Cleanup ==
    /\ pc = "cleanup"
    /\ \E e \in CleanupEnv(Self) :
          LET r == cleanup(Fresh, e)
          IN r.now <= MaxClock /\ Commit(r)
    /\ pc' = "done"
    /\ UNCHANGED <<running, inputs>>

\* The external programs run on their own: the capture may exit at any time,
\* ffplay -autoexit exits when the audio is over.
CaptureExits ==
    /\ pc \in {"events", "timeout", "render"}
    /\ recording_process = "Running"
    /\ Commit([Fresh EXCEPT !.recording_process = "Exited"])
    /\ UNCHANGED <<running, inputs, pc>>

AudioExits ==
    /\ pc \in {"events", "timeout", "render"}
    /\ audio_process = "Running"
    /\ Commit([Fresh EXCEPT !.audio_process = "Exited"])
    /\ UNCHANGED <<running, inputs, pc>>

Next ==
    \/ HandleSpace
    \/ HandleReset
    \/ HandleQuit
    \/ EventsDone
    \/ CheckStateTimeout
    \/ Render
    \/ Cleanup
    \/ CaptureExits
    \/ AudioExits

Spec == Init /\ [][Next]_vars

\* ------------------------------------------- the methods called directly
\* The object driven as a test drives it: its methods called one at a time, in
\* any order, from the constructed object.
ApiCall(r) ==
    /\ inputs < MaxApiCalls
    /\ r.now <= MaxApiClock
    /\ Commit(r)
    /\ inputs' = inputs + 1
    /\ UNCHANGED <<running, pc>>

ApiStartRecording ==
    \E e \in StartEnv(Self) : ApiCall(start_recording(Fresh, e))

ApiStopRecording ==
    \E e \in StopEnv(Self) : ApiCall(stop_recording(Fresh, e))

ApiStartVideoPlayback ==
    \E path \in DOMAIN store, e \in PlayEnv(Self) :
        ApiCall(start_video_playback(Fresh, path, e))

ApiStopCurrentPlayback ==
    \E e \in QuietEnv(Self) : ApiCall(stop_current_playback(Fresh, e))

ApiSwitchToNextVideo ==
    \E e \in QuietEnv(Self) : ApiCall(switch_to_next_video(Fresh, e))

ApiTick ==
    /\ now < MaxApiClock
    /\ Commit(Sleep(Fresh, 1))
    /\ UNCHANGED <<running, pc, inputs>>

ApiNext ==
    \/ ApiStartRecording
    \/ ApiStopRecording
    \/ ApiStartVideoPlayback
    \/ ApiStopCurrentPlayback
    \/ ApiSwitchToNextVideo
    \/ ApiTick
    \/ CaptureExits
    \/ AudioExits

ApiSpec == Init /\ [][ApiNext]_vars

\* ------------------------------------------- run() left to itself
\* The loop with at most MaxLiveInputs key events, none of them QUIT, followed
\* to MaxLiveClock: the loop keeps turning and clock.tick lets time pass.
LiveInputArrives ==
    /\ pc = "events"
    /\ inputs < MaxLiveInputs
    /\ now - state_start_time <= MaxWait

LiveSpace ==
    /\ LiveInputArrives
    /\ \E e \in HandlerEnv(Self) :
          LET r == handle_space(Fresh, e)
          IN r.now <= MaxLiveClock /\ Commit(r)
    /\ inputs' = inputs + 1
    /\ UNCHANGED <<running, pc>>

LiveReset ==
    /\ LiveInputArrives
    /\ \E e \in StopEnv(Self) :
          LET r == handle_reset(Fresh, e)
          IN r.now <= MaxLiveClock /\ Commit(r)
    /\ inputs' = inputs + 1
    /\ UNCHANGED <<running, pc>>

LiveCheckStateTimeout ==
    /\ pc = "timeout"
    /\ \E e \in HandlerEnv(Self) :
          LET r == check_state_timeout(Fresh, e)
          IN r.now <= MaxLiveClock /\ Commit(r)
    /\ pc' = "render"
    /\ UNCHANGED <<running, inputs>>

LiveRender ==
    /\ pc = "render"
    /\ \E e \in RenderEnv(Self), dt \in {0, 1} :
          LET r == Sleep(render(Fresh, e), dt)
          IN /\ current_state = "idle" /\ r.now > now
                  => r.now - state_start_time <= MaxIdle
             /\ r.now <= MaxLiveClock
             /\ Commit(r)
    /\ pc' = "events"
    /\ UNCHANGED <<running, inputs>>

\* A turn of the loop, in a timed phase, in which time passes.
LiveTick == current_state # "idle" /\ LiveRender /\ now' > now

LiveNext ==
    \/ LiveSpace
    \/ LiveReset
    \/ EventsDone
    \/ LiveCheckStateTimeout
    \/ LiveRender
    \/ CaptureExits
    \/ AudioExits

LiveSpec ==
    /\ Init
    /\ [][LiveNext]_vars
    /\ WF_vars(EventsDone)
    /\ WF_vars(LiveCheckStateTimeout)
    /\ SF_vars(LiveTick)

\* ------------------------------------- idle playback over a changing directory
\* The idle loop while something outside the program damages files of the
\* directory: a damaged file keeps its name and size and no longer decodes.
FileDamaged ==
    /\ pc \in {"events", "timeout", "render"}
    /\ \E p \in DOMAIN store :
          /\ store[p].decodable
          /\ Commit([Fresh EXCEPT !.store[p].decodable = FALSE])
    /\ UNCHANGED <<running, inputs, pc>>

PlayNext ==
    \/ FileDamaged
    \/ EventsDone
    \/ CheckStateTimeout
    \/ Render
    \/ AudioExits

PlaySpec == Init /\ [][PlayNext]_vars

\* --------------------------------------- run() over a changing directory
\* The whole loop while something outside the program (an operator tidying the
\* recordings directory) removes files from it.
FileRemoved ==
    /\ pc \in {"events", "timeout", "render"}
    /\ \E p \in DOMAIN store :
          Commit([Fresh EXCEPT !.store = Restrict(@, DOMAIN @ \ {p})])
    /\ UNCHANGED <<running, inputs, pc>>

DecayNext ==
    \/ Next
    \/ FileRemoved

DecaySpec == Init /\ [][DecayNext]_vars

\* ------------------------------------------------- the scan on its own
\* The object constructed over any directory of at most MaxScanFiles files
\* written before the start, and scan_recorded_videos called again on it.
ScanPaths == {0 - i : i \in 1..MaxScanFiles}
ScanTimes == {0 - i : i \in 1..MaxScanFiles}
ScanFiles == {File(m, sz, d) : m \in ScanTimes, sz \in FileSizes, d \in BOOLEAN}
ScanStores == UNION {[S -> ScanFiles] : S \in SUBSET ScanPaths}

ScanInit ==
    /\ \E st \in ScanStores : 
          LET r == Constructed(st)
          IN /\ config = r.config
             /\ current_state = r.current_state
             /\ state_start_time = r.state_start_time
             /\ can_finish_early = r.can_finish_early
             /\ camera = r.camera
             /\ recording_process = r.recording_process
             /\ current_recording_path = r.current_recording_path
             /\ recording_status = r.recording_status
             /\ recorded_videos = r.recorded_videos
             /\ current_playback_index = r.current_playback_index
             /\ current_playback_video = r.current_playback_video
             /\ playback_cap = r.playback_cap
             /\ audio_process = r.audio_process
             /\ video_start_time = r.video_start_time
             /\ switching_video = r.switching_video
             /\ video_fps = r.video_fps
             /\ last_playback_frame = r.last_playback_frame
             /\ store = r.store
             /\ now = r.now
             /\ lost_captures = r.lost_captures
             /\ lost_audio = r.lost_audio
             /\ lost_caps = r.lost_caps
             /\ calls = r.calls
             /\ examined = r.examined
             /\ listed = r.listed
             /\ drawn = r.drawn
             /\ synced = r.synced
    /\ inputs = 0
    /\ running = TRUE
    /\ pc = "events"

ApiScan == ApiCall(scan_recorded_videos(Fresh))

ScanNext == ApiScan

ScanSpec == ScanInit /\ [][ScanNext]_vars

\* ------------------------------------------ run() under other durations
\* The loop with the prompt configured shorter than the class default, followed
\* for MaxConfInputs inputs over MaxConfClock seconds.
PromptTimes == {0, 1, PROMPT_TIME}

Configs == {[DefaultConfig EXCEPT !.PROMPT_TIME = p] : p \in PromptTimes}

ConfInit ==
    /\ \E st \in InitialStores, cf \in Configs : 
          LET r == [Constructed(st) EXCEPT !.config = cf]
          IN /\ config = r.config
             /\ current_state = r.current_state
             /\ state_start_time = r.state_start_time
             /\ can_finish_early = r.can_finish_early
             /\ camera = r.camera
             /\ recording_process = r.recording_process
             /\ current_recording_path = r.current_recording_path
             /\ recording_status = r.recording_status
             /\ recorded_videos = r.recorded_videos
             /\ current_playback_index = r.current_playback_index
             /\ current_playback_video = r.current_playback_video
             /\ playback_cap = r.playback_cap
             /\ audio_process = r.audio_process
             /\ video_start_time = r.video_start_time
             /\ switching_video = r.switching_video
             /\ video_fps = r.video_fps
             /\ last_playback_frame = r.last_playback_frame
             /\ store = r.store
             /\ now = r.now
             /\ lost_captures = r.lost_captures
             /\ lost_audio = r.lost_audio
             /\ lost_caps = r.lost_caps
             /\ calls = r.calls
             /\ examined = r.examined
             /\ listed = r.listed
             /\ drawn = r.drawn
             /\ synced = r.synced
    /\ inputs = 0
    /\ running = TRUE
    /\ pc = "events"

ConfInputArrives ==
    /\ pc = "events"
    /\ inputs < MaxConfInputs

ConfSpace ==
    /\ ConfInputArrives
    /\ \E e \in HandlerEnv(Self) :
          LET r == handle_space(Fresh, e)
          IN r.now <= MaxConfClock /\ Commit(r)
    /\ inputs' = inputs + 1
    /\ UNCHANGED <<running, pc>>

ConfReset ==
    /\ ConfInputArrives
    /\ \E e \in StopEnv(Self) :
          LET r == handle_reset(Fresh, e)
          IN r.now <= MaxConfClock /\ Commit(r)
    /\ inputs' = inputs + 1
    /\ UNCHANGED <<running, pc>>

ConfCheckStateTimeout ==
    /\ pc = "timeout"
    /\ \E e \in HandlerEnv(Self) :
          LET r == check_state_timeout(Fresh, e)
          IN r.now <= MaxConfClock /\ Commit(r)
    /\ pc' = "render"
    /\ UNCHANGED <<running, inputs>>

ConfRender ==
    /\ pc = "render"
    /\ \E e \in RenderEnv(Self), dt \in {0, 1} :
          LET r == Sleep(render(Fresh, e), dt)
          IN r.now <= MaxConfClock /\ Commit(r)
    /\ pc' = "events"
    /\ UNCHANGED <<running, inputs>>

ConfNext ==
    \/ ConfSpace
    \/ ConfReset
    \/ EventsDone
    \/ ConfCheckStateTimeout
    \/ ConfRender

ConfSpec == ConfInit /\ [][ConfNext]_vars

\* ------------------------------------------ run(): one visitor's session
\* The loop followed for MaxVisitInputs inputs over MaxVisitClock seconds, long
\* enough for a recording that the visitor finishes early, each input within
\* MaxVisitWait seconds of the entry of its phase; the capture writes a
\* file while the directory holds fewer than MaxVisitFiles, so that a recording
\* can be saved into the library found at start-up.
VisitOutcomes(s) ==
    {None} \cup
    (IF s.current_recording_path # None
        /\ (Cardinality(DOMAIN s.store) < MaxVisitFiles
            \/ Get(s.current_recording_path) \in DOMAIN s.store)
     THEN {Some(<<sz, d>>) : sz \in FileSizes, d \in BOOLEAN}
     ELSE {})

VisitStopEnv(s) ==
    Env({TRUE}, {"alive"}, IfRunning(s.recording_process),
        IF s.recording_process # "None" THEN VisitOutcomes(s) ELSE {None},
        {TRUE}, {"alive"}, {FALSE}, {DEFAULT_FPS})

VisitHandlerEnv(s) ==
    IF s.current_state = "recording" THEN VisitStopEnv(s) ELSE HandlerEnv(s)

VisitInputArrives ==
    /\ pc = "events"
    /\ inputs < MaxVisitInputs
    /\ now - state_start_time <= MaxVisitWait

VisitSpace ==
    /\ VisitInputArrives
    /\ \E e \in VisitHandlerEnv(Self) :
          LET r == handle_space(Fresh, e)
          IN r.now <= MaxVisitClock /\ Commit(r)
    /\ inputs' = inputs + 1
    /\ UNCHANGED <<running, pc>>

VisitReset ==
    /\ VisitInputArrives
    /\ \E e \in VisitStopEnv(Self) :
          LET r == handle_reset(Fresh, e)
          IN r.now <= MaxVisitClock /\ Commit(r)
    /\ inputs' = inputs + 1
    /\ UNCHANGED <<running, pc>>

VisitCheckStateTimeout ==
    /\ pc = "timeout"
    /\ \E e \in VisitHandlerEnv(Self) :
          LET r == check_state_timeout(Fresh, e)
          IN r.now <= MaxVisitClock /\ Commit(r)
    /\ pc' = "render"
    /\ UNCHANGED <<running, inputs>>

VisitRender ==
    /\ pc = "render"
    /\ \E e \in RenderEnv(Self), dt \in {0, 1} :
          LET r == Sleep(render(Fresh, e), dt)
          IN /\ current_state = "idle" /\ r.now > now
                  => r.now - state_start_time <= MaxIdle
             /\ r.now <= MaxVisitClock
             /\ Commit(r)
    /\ pc' = IF running /\ ~Raised([calls |-> calls']) THEN "events" ELSE "cleanup"
    /\ UNCHANGED <<running, inputs>>

VisitQuit ==
    /\ VisitInputArrives
    /\ Commit(Call(Fresh, "QUIT"))
    /\ running' = FALSE
    /\ pc' = "timeout"
    /\ inputs' = inputs + 1

VisitCleanup ==
    /\ pc = "cleanup"
    /\ \E e \in CleanupEnv(Self) :
          LET r == cleanup(Fresh, e)
          IN r.now <= MaxVisitClock /\ Commit(r)
    /\ pc' = "done"
    /\ UNCHANGED <<running, inputs>>

VisitNext ==
    \/ VisitSpace
    \/ VisitReset
    \/ VisitQuit
    \/ EventsDone
    \/ VisitCheckStateTimeout
    \/ VisitRender
    \/ VisitCleanup
    \/ CaptureExits
    \/ AudioExits

VisitSpec == Init /\ [][VisitNext]_vars

\* ------------------------------------------- the frame synchronisation
\* get_current_playback_frame and start_video_playback called directly on files
\* of several frame rates, the clock moving between the calls, the decoder
\* reporting positions behind, at and ahead of the target.
SyncCall(r) ==
    /\ inputs < MaxSyncCalls
    /\ r.now <= MaxSyncClock
    /\ Commit(r)
    /\ inputs' = inputs + 1
    /\ UNCHANGED <<running, pc>>

SyncStart ==
    \E path \in DOMAIN store, e \in SyncEnv(Self) :
        SyncCall(start_video_playback(Fresh, path, e))

SyncFrame ==
    \E e \in SyncEnv(Self) : SyncCall(get_current_playback_frame(Fresh, e))

SyncTick ==
    /\ now < MaxSyncClock
    /\ Commit(Sleep(Fresh, 1))
    /\ UNCHANGED <<running, pc, inputs>>

SyncNext ==
    \/ SyncStart
    \/ SyncFrame
    \/ SyncTick

SyncSpec == Init /\ [][SyncNext]_vars

\* ------------------------------------------- the idle loop left to itself
\* run() with no key event: the phase stays idle and the directory is left
\* alone.  A frame of the loop takes 1/60 s, so the whole-second clock moves
\* only in the sleep of start_video_playback; the loop is followed for
\* MaxCycleClock seconds.  Every file stays valid: the first read() of a file
\* just started succeeds, as the read of is_video_file_valid just did.
CycleEnv(s) ==
    {e \in RenderEnv(s) :
        (s.current_playback_video = None \/ s.audio_process = "Exited")
          => ~e.eof}

CycleRender ==
    /\ pc = "render"
    /\ \E e \in CycleEnv(Self) :
          LET r == render(Fresh, e)
          IN r.now <= MaxCycleClock /\ Commit(r)
    /\ pc' = "events"
    /\ UNCHANGED <<running, inputs>>

CycleNext ==
    \/ EventsDone
    \/ CheckStateTimeout
    \/ CycleRender
    \/ AudioExits

\* A step of CycleRender, told by the loop position, and the one in which the
\* decoder reaches the end of the playing file: read() is called and fails.
CycleTurns == pc = "render" /\ pc' = "events"

CycleEnds ==
    /\ CycleTurns
    /\ synced' # None
    /\ Get(synced').read
    /\ Get(synced').returned = None

\* When CycleRender can be taken: a render that starts a file sleeps in
\* start_video_playback and needs the time for it.
RenderReady ==
    /\ pc = "render"
    /\ (recorded_videos # <<>>
          /\ (current_playback_video = None \/ audio_process = "Exited"))
         => now + AUDIO_START_SLEEP <= MaxCycleClock

\* When CycleRender can read the end of the stream of the playing file.
EndReady ==
    /\ pc = "render"
    /\ current_state = "idle"
    /\ playback_cap = "Open"
    /\ audio_process # "Exited"

\* The loop keeps turning, and a file is finite: the render whose read() fails
\* comes.
CycleSpec ==
    /\ Init
    /\ [][CycleNext]_vars
    /\ WF_vars(EventsDone)
    /\ WF_vars(CheckStateTimeout)
    /\ (<>[]RenderReady => []<><<CycleTurns>>_vars)
    /\ ([]<>EndReady => []<><<CycleEnds>>_vars)

\* ------------------------------------------- the decoder of one session
\* get_current_playback_frame called again and again on one decode stream, the
\* clock moving forward between the calls.  The stream is where the last call
\* left it: CAP_PROP_POS_FRAMES answers the position recorded by that call, 0
\* on a stream opened since (by this call, or by the switch after a failed
\* read).  A ticking clock leaves the record of the last call in place.
Returned ==
    /\ calls # <<>>
    /\ calls[Len(calls)] \in {"return frame", "return last_playback_frame"}

DecoderPosition ==
    IF synced # None /\ Returned THEN Get(synced).position ELSE 0

PosLag ==
    IF current_playback_video = None \/ video_start_time = None THEN 0
    ELSE target_frame(Self) - DecoderPosition

PosEnv(s) ==
    [cam_ok : {TRUE}, ffmpeg : {"alive"}, graceful : {TRUE}, file : {None},
     audio_graceful : {TRUE}, ffplay : {"alive"}, eof : BOOLEAN,
     fps : FrameRates, lag : {PosLag}]

PosFrame ==
    /\ inputs < MaxPosCalls
    /\ \E e \in PosEnv(Self) :
          LET r == get_current_playback_frame(Fresh, e)
          IN r.now <= MaxPosClock /\ Commit(r)
    /\ inputs' = inputs + 1
    /\ UNCHANGED <<running, pc>>

PosTick ==
    /\ now < MaxPosClock
    /\ Commit(Sleep(Self, 1))
    /\ UNCHANGED <<running, pc, inputs>>

PosNext ==
    \/ PosFrame
    \/ PosTick

PosSpec == Init /\ [][PosNext]_vars

\* ------------------------------------------------------------ properties
\* The step just taken is the handler (or the direct call) named.
Handler(name) == calls # <<>> /\ calls[1] = name
NextHandler(name) == calls' # <<>> /\ calls'[1] = name
NextCalled(name) == \E i \in 1..Len(calls') : calls'[i] = name

Successor(phase) ==
    CASE phase = "idle" -> "prompt"
      [] phase = "prompt" -> "recording"
      [] phase = "recording" -> "thankyou"
      [] phase = "thankyou" -> "idle"

Duration(phase) ==
    CASE phase = "prompt" -> PROMPT_TIME
      [] phase = "recording" -> RECORDING_TIME
      [] phase = "thankyou" -> THANKYOU_TIME

LiveCaptures == lost_captures + (IF recording_process = "Running" THEN 1 ELSE 0)

NoPlaybackSession ==
    /\ playback_cap = "None"
    /\ audio_process = "None"
    /\ current_playback_video = None
    /\ video_start_time = None

\* C1: every step in which advance_state runs moves the phase to its successor
\* in the cycle idle, prompt, recording, thankyou, idle.
C1_PhaseCycle ==
    [][NextCalled("advance_state")
         => current_state' = Successor(current_state)]_vars

\* A cycle has been closed: advance_state has just entered idle from thankyou.
C1_Witness ==
    /\ Called("advance_state")
    /\ current_state = "idle"

\* C2: in a timed phase, check_state_timeout run at clock value now changes the
\* phase if and only if now - state_start_time >= the phase's duration.
C2_TimeoutExact ==
    [][NextHandler("check_state_timeout")
       /\ current_state \in {"prompt", "recording", "thankyou"}
         => ((current_state' # current_state)
               <=> (now - state_start_time >= Duration(current_state)))]_vars

\* The recording phase has just been ended by its timeout.
C2_Witness ==
    /\ Handler("check_state_timeout")
    /\ Called("advance_state")
    /\ current_state = "thankyou"

\* C3: the phase leaves idle only in a step that handles K_SPACE.
C3_IdleOnlyManual ==
    [][current_state = "idle" /\ current_state' # "idle"
         => NextHandler("K_SPACE")]_vars

\* Idle for as long as the shortest timed phase lasts, a file switch just made,
\* and still idle.
C3_Witness ==
    /\ current_state = "idle"
    /\ now - state_start_time >= THANKYOU_TIME
    /\ Handler("render")
    /\ Called("switch_to_next_video")

\* C4: a handled K_r leaves the phase idle and no capture process alive; when a
\* capture handle was held, stop_recording has run and the target file is either
\* valid and kept or gone.
C4_ResetStopsRecording ==
    [][NextHandler("K_r")
         => /\ current_state' = "idle"
            /\ recording_process' = "None"
            /\ lost_captures' = 0
            /\ recording_process # "None"
                 => /\ NextCalled("stop_recording")
                    /\ NextCalled("recording_process.terminate")
                    /\ current_recording_path' = None
                    /\ current_recording_path # None
                         => LET p == Get(current_recording_path)
                            IN \/ p \notin DOMAIN store'
                               \/ is_video_file_valid([store |-> store'], p)]_vars

\* A reset has just stopped a capture process.
C4_Witness ==
    /\ Handler("K_r")
    /\ Called("recording_process.terminate")
    /\ current_state = "idle"

\* C5: a handled K_r ends the playback session that was in flight.
C5_ResetStopsPlayback ==
    [][NextHandler("K_r") /\ (audio_process # "None" \/ playback_cap # "None")
         => /\ audio_process' = "None"
            /\ playback_cap' = "None"
            /\ video_start_time' = None]_vars

\* C6: at most one capture process is alive, and it is the one the handle names.
C6_OneCapture ==
    /\ LiveCaptures <= 1
    /\ lost_captures = 0

\* A capture is running after an earlier one of this run was saved.
C6_Witness ==
    /\ recording_process = "Running"
    /\ \E p \in DOMAIN store : p >= 0

\* C7: start_recording called while the handle names a live capture launches
\* nothing and keeps the handle and the target path.
C7_StartIsNoOpWhenRunning ==
    [][NextHandler("start_recording") /\ recording_process = "Running"
         => /\ ~NextCalled("Popen(ffmpeg)")
            /\ recording_process' = "Running"
            /\ lost_captures' = lost_captures
            /\ current_recording_path' = current_recording_path]_vars

\* C8: whatever start_video_playback calls are made, no audio channel and no
\* decode stream is left live behind the one the object holds, and the prior
\* session is stopped before the new stream is opened.
C8_OnePlayback ==
    /\ lost_audio = 0
    /\ lost_caps = 0
    /\ Handler("start_video_playback") /\ Called("VideoCapture")
         => calls[2] = "stop_current_playback"

\* start_video_playback has just replaced a session that was playing.
C8_Witness ==
    /\ Handler("start_video_playback")
    /\ Called("playback_cap.release")
    /\ Called("audio_process.terminate")
    /\ audio_process = "Running"
    /\ playback_cap = "Open"

\* C9: stop_current_playback leaves no session behind, and called without a
\* session it changes no field of the object.
C9_StopPlaybackIdempotent ==
    [][NextHandler("stop_current_playback")
         => /\ NoPlaybackSession'
            /\ NoPlaybackSession
                 => UNCHANGED <<current_state, state_start_time, can_finish_early,
                                camera, recording_process, current_recording_path,
                                recording_status, recorded_videos,
                                current_playback_index, current_playback_video,
                                playback_cap, audio_process, video_start_time,
                                switching_video, video_fps,
                             last_playback_frame, store, now, lost_captures,
                                lost_audio, lost_caps>>]_vars

\* Two direct calls have been made, both of stop_current_playback: the second
\* found nothing to release or terminate.
C9_Witness ==
    /\ calls = <<"stop_current_playback">>
    /\ inputs = 2
    /\ now = 0
    /\ recording_status = "Ready"
    /\ recorded_videos # <<>>

\* C10: stop_recording called without a handle and without a target path changes
\* no field of the object.
C10_StopRecordingNoSession ==
    [][NextHandler("stop_recording")
       /\ recording_process = "None" /\ current_recording_path = None
         => UNCHANGED <<current_state, state_start_time, can_finish_early,
                        camera, recording_process, current_recording_path,
                        recording_status, recorded_videos,
                        current_playback_index, current_playback_video,
                        playback_cap, audio_process, video_start_time,
                        switching_video, store, now, lost_captures,
                        lost_audio, lost_caps>>]_vars

\* The outcome the target found after the capture's exit calls for.
FileValid(f) == ~(f.size < VALID_MIN_SIZE) /\ f.decodable

Outcome(x) ==
    IF x.file = None THEN "Recording failed - no file created"
    ELSE IF ~(Get(x.file).size > SAVE_MIN_SIZE)
    THEN "Recording failed - file too small"
    ELSE IF ~FileValid(Get(x.file)) THEN "Recording corrupted, removed"
    ELSE "Saved"

Library == {recorded_videos[i] : i \in 1..Len(recorded_videos)}

\* The files this run has written: their names are clock values, the names of
\* the files found at start-up are negative.
RecordedThisRun == {p \in DOMAIN store : p >= 0}

\* C12: when stop_recording has reported Saved it has rescanned the directory and
\* the saved file is in the library; and every recording saved in this run is a
\* library entry in every later state.
C12_SavedIsListed ==
    /\ Called("stop_recording") /\ recording_status = "Saved"
         => /\ Called("scan_recorded_videos")
            /\ Get(examined.path) \in Library
    /\ RecordedThisRun \subseteq Library

\* Idle playback is showing a recording saved in this run.
C12_Witness ==
    /\ current_state = "idle"
    /\ playback_cap = "Open"
    /\ current_playback_video # None
    /\ Get(current_playback_video) \in RecordedThisRun

\* C13: when stop_recording runs with an empty library and finds at its target a
\* file the validator accepts (size at least VALID_MIN_SIZE, decodable), the file
\* is kept and is the only library entry afterwards.
C13_ValidFileIsKept ==
    [][(/\ NextCalled("stop_recording")
        /\ recorded_videos = <<>>
        /\ examined'.file # None
        /\ FileValid(Get(examined'.file)))
         => /\ Get(examined'.path) \in DOMAIN store'
            /\ recorded_videos' = <<Get(examined'.path)>>
            /\ recording_status' # "Recording failed - file too small"]_vars

\* C14: after scan_recorded_videos the library holds exactly the listed files that
\* pass is_video_file_valid, each once, newest modification time first, and the
\* listed files that fail are no longer in the directory (so that the next scan
\* does not list them).
C14_ScanResult ==
    Called("scan_recorded_videos")
      => LET valid == {p \in DOMAIN listed : FileValid(listed[p])}
         IN /\ Library = valid
            /\ Len(recorded_videos) = Cardinality(valid)
            /\ \A i, j \in 1..Len(recorded_videos) :
                   i < j => listed[recorded_videos[i]].mtime
                              >= listed[recorded_videos[j]].mtime
            /\ store = Restrict(listed, valid)

\* A scan has listed three files with three modification times, found one of
\* them invalid and removed it, and has put the newer of the others first.
C14_Witness ==
    /\ Called("scan_recorded_videos")
    /\ Cardinality(DOMAIN listed) = 3
    /\ Cardinality({listed[p].mtime : p \in DOMAIN listed}) = 3
    /\ Len(recorded_videos) = 2
    /\ Cardinality(DOMAIN store) = 2
    /\ recorded_videos[1] < recorded_videos[2]

\* C15: can_finish_early is true only in the recording phase with a capture
\* handle held; it becomes true only in a step that runs start_recording, and
\* after such a step it is true exactly when the launched capture was alive at
\* the check; it is false after stop_recording and after K_r; and K_SPACE ends
\* the recording phase only when it was true.
C15_EarlyFinishFlag ==
    [][/\ can_finish_early'
            => current_state' = "recording" /\ recording_process' # "None"
       /\ ~can_finish_early /\ can_finish_early' => NextCalled("start_recording")
       /\ NextCalled("start_recording")
            => (can_finish_early' <=> recording_process' = "Running")
       /\ NextCalled("stop_recording") \/ NextHandler("K_r") => ~can_finish_early'
       /\ (current_state = "recording" /\ NextHandler("K_SPACE")
             /\ current_state' # "recording")
            => can_finish_early /\ recording_process # "None"]_vars

\* K_SPACE has just finished a recording early.
C15_Witness ==
    /\ Handler("K_SPACE")
    /\ Called("stop_recording")
    /\ current_state = "thankyou"
    /\ ~can_finish_early

\* C16: K_SPACE handled in prompt or thankyou, or in recording while
\* can_finish_early is false, changes no field of the object: phase, phase entry
\* time, recording session, playback session, library and directory stay as
\* they were.
C16_SpaceIgnored ==
    [][(/\ NextHandler("K_SPACE")
        /\ \/ current_state \in {"prompt", "thankyou"}
           \/ current_state = "recording" /\ ~can_finish_early)
         => UNCHANGED <<current_state, state_start_time, can_finish_early,
                        camera, recording_process, current_recording_path,
                        recording_status, recorded_videos,
                        current_playback_index, current_playback_video,
                        playback_cap, audio_process, video_start_time,
                        switching_video, store, now, lost_captures,
                        lost_audio, lost_caps>>]_vars

\* K_SPACE has just been handled, and ignored, in a recording phase whose
\* capture did not start.
C16_Witness ==
    /\ calls = <<"K_SPACE">>
    /\ current_state = "recording"
    /\ ~can_finish_early
    /\ recording_status = "FFmpeg required for recording"

\* C17: at the top of the loop, whenever the phase is not recording there is no
\* recording session: no capture handle, no target path, can_finish_early false.
C17_NoSessionOutsideRecording ==
    pc = "events" /\ current_state # "recording"
      => /\ recording_process = "None"
         /\ current_recording_path = None
         /\ ~can_finish_early

\* The capture launched in this recording phase had exited by the poll() that
\* follows the start sleep.
LaunchFailed ==
    /\ current_state = "recording"
    /\ recording_status = "FFmpeg required for recording"
    /\ recording_process = "Exited"

\* C18: a recording phase whose launch failed is left before RECORDING_TIME
\* has elapsed in it.
C18_LaunchFailureAborts ==
    LaunchFailed => now - state_start_time < RECORDING_TIME

\* The longest the phases still ahead can last before idle is entered, the
\* capture taking its whole communicate timeout when it is running.
Positive(n) == IF n > 0 THEN n ELSE 0

StopTime ==
    CASE recording_process = "Running" ->
             STOP_COMMUNICATE_TIMEOUT + STOP_FINALIZE_SLEEP
      [] recording_process = "Exited" -> STOP_FINALIZE_SLEEP
      [] recording_process = "None" -> 0

TimeToIdle ==
    CASE current_state = "idle" -> 0
      [] current_state = "prompt" ->
             Positive(PROMPT_TIME - (now - state_start_time))
             + FFMPEG_START_SLEEP + RECORDING_TIME + STOP_COMMUNICATE_TIMEOUT
             + STOP_FINALIZE_SLEEP + THANKYOU_TIME
      [] current_state = "recording" ->
             Positive(RECORDING_TIME - (now - state_start_time))
             + StopTime + THANKYOU_TIME
      [] current_state = "thankyou" ->
             Positive(THANKYOU_TIME - (now - state_start_time))

\* No key event can follow, and the clock the model follows reaches far enough.
LeftAlone ==
    /\ inputs = MaxLiveInputs
    /\ now + TimeToIdle <= MaxLiveClock

\* C19: from every phase other than idle, once no further key event arrives, the
\* loop reaches idle, whatever the camera, the capture and the file did.
C19_ReturnsToIdle ==
    (current_state # "idle" /\ LeftAlone) ~> (current_state = "idle")

\* A recording phase whose launch failed, left alone with time to finish.
C19_Witness ==
    /\ LaunchFailed
    /\ LeftAlone

\* The library entries that fail is_video_file_valid.
BadEntries == {p \in Library : ~is_video_file_valid(Self, p)}

\* C20: a step in which start_video_playback finds its file invalid (no decode
\* stream is opened) removes a bad entry from the directory and from the
\* library.
C20_BadEntryRemoved ==
    [][NextCalled("start_video_playback") /\ ~NextCalled("VideoCapture")
         => \E p \in BadEntries :
               /\ p \notin DOMAIN store'
               /\ \A i \in 1..Len(recorded_videos') : recorded_videos'[i] # p]_vars

\* C21: whenever the library is not empty current_playback_index is an index into
\* it, and the lookup of get_current_playback_frame has not raised.
C21_IndexValid ==
    /\ recorded_videos # <<>>
         => current_playback_index \in 0..(Len(recorded_videos) - 1)
    /\ ~Called("IndexError")

\* The calls of switch_to_next_video a handler made before it opened a new
\* decode stream: the advances made for the file that was playing.
FirstCall(seq, name) ==
    IF \E i \in 1..Len(seq) : seq[i] = name
    THEN CHOOSE i \in 1..Len(seq) :
             seq[i] = name /\ \A j \in 1..(i - 1) : seq[j] # name
    ELSE Len(seq) + 1

AdvancesForCurrentFile(seq) ==
    Cardinality({i \in 1..(FirstCall(seq, "VideoCapture") - 1) :
                    seq[i] = "switch_to_next_video"})

\* C22: in a render of idle playback of file i the index is advanced at most
\* once for that file, and exactly once when the audio channel has exited,
\* whether or not the frame read fails in the same tick; the advance releases
\* the decode stream and drops the audio handle of file i, and without a new
\* stream the index is (i + 1) mod n.
C22_SingleAdvance ==
    [][(NextHandler("render") /\ current_state = "idle"
        /\ current_playback_video # None /\ recorded_videos # <<>>)
         => LET k == AdvancesForCurrentFile(calls')
            IN /\ k <= 1
               /\ audio_process = "Exited" => k = 1
               /\ k = 1 /\ playback_cap = "Open"
                    => NextCalled("playback_cap.release")
               /\ k = 1 /\ ~NextCalled("VideoCapture")
                    => /\ current_playback_index'
                            = (current_playback_index + 1) % Len(recorded_videos)
                       /\ audio_process' = "None"
                       /\ playback_cap' = "None"]_vars

\* The audio channel of the first file was found exited: its decode stream was
\* released, the index moved to the second file, whose stream is now open.
C22_Witness ==
    /\ Handler("render")
    /\ Len(calls) >= 3
    /\ calls[2] = "check_if_video_ended"
    /\ calls[3] = "switch_to_next_video"
    /\ Called("playback_cap.release")
    /\ Called("VideoCapture")
    /\ current_playback_index = 1
    /\ current_playback_video = Some(recorded_videos[2])

\* Every call of kill in the trace directly follows the call of terminate.
KillFollows(seq, kill, terminate) ==
    \A i \in 1..Len(seq) :
        seq[i] = kill => i > 1 /\ seq[i - 1] = terminate

Count(seq, name) == Cardinality({i \in 1..Len(seq) : seq[i] = name})

\* The waits that must have run out before the kills of the trace.
WaitsBeforeKills(seq) ==
    Count(seq, "audio_process.kill") * AUDIO_WAIT_TIMEOUT
    + Count(seq, "recording_process.kill")
        * (IF Count(seq, "cleanup") > 0 THEN CLEANUP_WAIT_TIMEOUT
           ELSE STOP_COMMUNICATE_TIMEOUT)

\* C23: in every handler a kill of the capture or of the audio channel comes
\* directly after the terminate of the same process, only for a process that
\* was running, and only after the wait for its exit has run its whole timeout.
C23_GracefulFirst ==
    [][/\ KillFollows(calls', "recording_process.kill",
                      "recording_process.terminate")
       /\ KillFollows(calls', "audio_process.kill", "audio_process.terminate")
       /\ NextCalled("recording_process.kill") => recording_process = "Running"
       /\ NextCalled("audio_process.kill")
            => audio_process = "Running" \/ NextCalled("Popen(ffplay)")
       /\ now' - now >= WaitsBeforeKills(calls')]_vars

\* The finally clause has just killed a capture that did not exit within its
\* wait.
C23_Witness ==
    /\ Handler("cleanup")
    /\ Called("recording_process.terminate")
    /\ Called("recording_process.kill")
    /\ recording_process = "Exited"

\* C24: whenever a render has drawn the idle screen with an empty library, what
\* it drew is the text "Press SPACE to start".
C24_EmptyLibraryPlaceholder ==
    Handler("render") /\ current_state = "idle" /\ recorded_videos = <<>>
      => drawn = "Press SPACE to start"

\* C25: switch_to_next_video on an empty library changes no field; on a library
\* of n files it leaves no playback session, having released the decode stream
\* and terminated the audio channel that were held, leaves the library as it
\* was and moves the index from i to (i + 1) mod n.
C25_SwitchAdvances ==
    [][NextHandler("switch_to_next_video")
         => IF recorded_videos = <<>>
            THEN UNCHANGED <<current_state, state_start_time, can_finish_early,
                             camera, recording_process, current_recording_path,
                             recording_status, recorded_videos,
                             current_playback_index, current_playback_video,
                             playback_cap, audio_process, video_start_time,
                             switching_video, video_fps,
                             last_playback_frame, store, now, lost_captures,
                             lost_audio, lost_caps>>
            ELSE /\ current_playback_index'
                      = (current_playback_index + 1) % Len(recorded_videos)
                 /\ NoPlaybackSession'
                 /\ playback_cap # "None" => NextCalled("playback_cap.release")
                 /\ audio_process # "None" => NextCalled("audio_process.terminate")
                 /\ ~switching_video'
                 /\ UNCHANGED <<recorded_videos, store, current_state,
                                state_start_time, lost_audio, lost_caps>>]_vars

\* A direct call on a library of two files has just wrapped the index from the
\* last entry to the first.
C25_Witness ==
    /\ calls # <<>> /\ calls[1] = "switch_to_next_video"
    /\ Len(recorded_videos) = 2
    /\ current_playback_index = 0

\* The last handler's read() of the decode stream failed.
FetchFailed(sy) == sy # None /\ Get(sy).read /\ Get(sy).returned = None

\* C26: a render whose frame fetch fails draws no stored-video frame, leaves no
\* playback session (the decode stream released, no audio channel alive or
\* held), leaves the index one past the file that failed, and the loop goes on
\* unless it was told to quit;
\* and every idle render that finds a library and no file playing calls
\* start_video_playback for the entry at the index.
C26_FetchFailureAdvances ==
    [][/\ NextHandler("render") /\ FetchFailed(synced')
          => /\ drawn' # "playback"
             /\ NextCalled("playback_cap.release")
             /\ NoPlaybackSession'
             /\ lost_audio' = lost_audio /\ lost_caps' = lost_caps
             /\ current_playback_index'
                  = (current_playback_index
                     + (IF audio_process = "Exited" THEN 2 ELSE 1))
                    % Len(recorded_videos)
             /\ running' = running /\ (running => pc' = "events")
       /\ /\ NextHandler("render") /\ current_state = "idle"
          /\ recorded_videos # <<>> /\ current_playback_video = None
          => NextCalled("start_video_playback")]_vars

\* A render has just started the second file and drawn its first frame, the
\* tick after a failed fetch on the first file left the index at it.
C26_Witness ==
    /\ Handler("render") /\ Called("start_video_playback")
    /\ ~Called("switch_to_next_video")
    /\ drawn = "playback"
    /\ current_playback_index = 1
    /\ lost_audio = 0 /\ audio_process = "None"
    /\ current_playback_video = Some(recorded_videos[2])
    /\ now = AUDIO_START_SLEEP + AUDIO_START_SLEEP

\* C27: with p the decoder's position and t the target frame, the whole seconds
\* since the playback start times the frame rate: when t > p + 5 the decoder is
\* moved to t and then read once; when t < p - 1 it is neither moved nor read,
\* stays at p, and the cached last frame is what is returned; otherwise it is
\* read once without being moved; a read that gives a frame leaves the decoder
\* one past where the read began, and that frame is cached and returned.
C27_FrameSync ==
    synced # None =>
        LET y == Get(synced)
            t == y.target
            p == y.current
        IN /\ video_start_time # None
                => t = (now - Get(video_start_time)) * video_fps
           /\ IF t > p + 5
              THEN /\ y.sought = Some(t) /\ y.read
                   /\ FirstCall(calls, "playback_cap.set")
                        < FirstCall(calls, "playback_cap.read")
                   /\ y.returned # None => y.position = t + 1
              ELSE IF t < p - 1
              THEN /\ y.sought = None /\ ~y.read
                   /\ Count(calls, "playback_cap.set") = 0
                   /\ Count(calls, "playback_cap.read") = 0
                   /\ y.position = p
                   /\ y.returned = last_playback_frame
              ELSE /\ y.sought = None /\ y.read
                   /\ Count(calls, "playback_cap.set") = 0
                   /\ y.returned # None => y.position = p + 1
           /\ y.read => /\ Count(calls, "playback_cap.read") = 1
                        /\ y.returned # None
                             => y.returned = last_playback_frame

\* The decoder was two frames ahead of the target: the cached frame came back
\* and the decoder was left where it was.
C27_Witness ==
    /\ Handler("get_current_playback_frame")
    /\ synced # None
    /\ Get(synced).target = Get(synced).current - 2
    /\ ~Get(synced).read
    /\ Get(synced).returned # None
    /\ Get(synced).position = Get(synced).current

\* C28: the stored-video frame an idle render draws is not mirrored left to
\* right.
C28_PlaybackNotMirrored ==
    /\ Handler("render") /\ current_state = "idle" /\ drawn = "playback"
    /\ synced # None /\ Get(synced).returned # None
    => ~Get(Get(synced).returned).mirrored

C30_PlaybackOnlyInIdle ==
    /\ [](current_state # "idle" => NoPlaybackSession)
    /\ [][NextCalled("advance_state") /\ current_state = "idle"
            => /\ NextCalled("stop_current_playback")
               /\ FirstCall(calls', "stop_current_playback")
                    = FirstCall(calls', "advance_state") + 1
               /\ NoPlaybackSession'
               /\ current_state' = "prompt"]_vars
    /\ [][NextCalled("start_video_playback")
            => current_state = "idle" /\ current_state' = "idle"]_vars

\* SPACE has just ended a playback session with an open decode stream and a
\* running audio process, and the phase is prompt.
C30_Witness ==
    /\ Handler("K_SPACE")
    /\ Called("advance_state")
    /\ Called("playback_cap.release")
    /\ Called("audio_process.terminate")
    /\ current_state = "prompt"
    /\ NoPlaybackSession

\* C31: a handler that runs scan_recorded_videos runs it once, inside
\* stop_recording and after the capture process was terminated; no capture
\* process is alive and no playback session exists when it runs, and no file
\* it removes is the file of the playback session.
C31_ScanOnlyAfterCapture ==
    [][NextCalled("scan_recorded_videos")
         => /\ Count(calls', "scan_recorded_videos") = 1
            /\ FirstCall(calls', "stop_recording")
                 < FirstCall(calls', "scan_recorded_videos")
            /\ (recording_process # "None"
                  => FirstCall(calls', "recording_process.terminate")
                       < FirstCall(calls', "scan_recorded_videos"))
            /\ recording_process' = "None"
            /\ lost_captures = 0 /\ lost_captures' = 0
            /\ NoPlaybackSession /\ NoPlaybackSession'
            /\ \A p \in DOMAIN store \ DOMAIN store' :
                   Some(p) # current_playback_video]_vars

\* A live capture has just been terminated and its file saved and listed by
\* the rescan, in the library of two files found at start-up.
C31_Witness ==
    /\ Called("stop_recording")
    /\ Called("recording_process.terminate")
    /\ Called("scan_recorded_videos")
    /\ recording_status = "Saved"
    /\ Len(recorded_videos) = 3
    /\ \E p \in DOMAIN store : p < 0

\* C32: while a decode stream is open its position is at most the target
\* frame + 2; a call of get_current_playback_frame leaves the position at most
\* its target + 2, and a call that decoded a frame leaves it at least its
\* target - 4.
C32_PositionWindow ==
    /\ playback_cap = "Open" /\ video_start_time # None
          => DecoderPosition <= target_frame(Self) + 2
    /\ synced # None
          => /\ Get(synced).position <= Get(synced).target + 2
             /\ Get(synced).read /\ Get(synced).returned # None
                  => Get(synced).position >= Get(synced).target - 4

\* A frame was decoded without a seek and the decoder is left four frames
\* behind the target.
C32_Witness ==
    /\ Handler("get_current_playback_frame")
    /\ synced # None
    /\ Get(synced).read /\ Get(synced).returned # None
    /\ Get(synced).sought = None
    /\ Get(synced).target > 0
    /\ Get(synced).position = Get(synced).target - 4

\* Library entry i (counted from 0) is being played.
Playing(i) ==
    /\ i < Len(recorded_videos)
    /\ current_playback_index = i
    /\ playback_cap = "Open"
    /\ current_playback_video = Some(recorded_videos[i + 1])

\* The entry after entry i in library order, the first after the last.
NextEntry(i) ==
    IF recorded_videos = <<>> THEN 0 ELSE (i + 1) % Len(recorded_videos)

\* There is time left to stop the playing file, waiting for its audio channel,
\* and to start one more.
TimeToStart == now + AUDIO_WAIT_TIMEOUT + AUDIO_START_SLEEP <= MaxCycleClock

\* C33: in the idle loop left to itself with a library of valid files, the entry
\* at the index is eventually played, a playing entry i is eventually followed
\* by the playing of entry (i + 1) mod n, and the index never changes except to
\* (index + 1) mod n.
C33_EveryEntryPlayed ==
    /\ (recorded_videos # <<>> /\ TimeToStart)
          ~> (\E i \in 0 .. MaxFiles : Playing(i))
    /\ \A i \in 0 .. MaxFiles :
          (Playing(i) /\ TimeToStart)
            ~> Playing(NextEntry(i))
    /\ [][current_playback_index' # current_playback_index
            => current_playback_index' = NextEntry(current_playback_index)]_vars

\* Both files of the library have been played and the first is playing again.
C33_Witness ==
    /\ Len(recorded_videos) = 2
    /\ Playing(0)
    /\ now >= 3 * AUDIO_START_SLEEP

\* The external processes alive: those the handles name and those no handle
\* names any more.
LiveProcesses ==
    lost_captures + lost_audio
      + (IF recording_process = "Running" THEN 1 ELSE 0)
      + (IF audio_process = "Running" THEN 1 ELSE 0)

\* C34: once QUIT or ESC is handled no further event is handled and the loop
\* goes through the timeout check and render of that iteration to cleanup;
\* cleanup sends terminate to the capture process and to the audio channel when
\* they are running, whenever they were started, and releases an open camera;
\* after it no external process is alive and the camera is closed.
C34_QuitCleansUp ==
    /\ [](~running => pc # "events")
    /\ [][~running /\ pc' # pc
            => <<pc, pc'>> \in {<<"timeout", "render">>, <<"render", "cleanup">>,
                                <<"cleanup", "done">>}]_vars
    /\ [][pc = "cleanup" /\ pc' = "done"
            => /\ recording_process = "Running"
                    => NextCalled("recording_process.terminate")
               /\ audio_process = "Running"
                    => NextCalled("audio_process.terminate")
               /\ camera => NextCalled("camera.release")
               /\ LiveProcesses' = 0
               /\ ~camera']_vars
    /\ [](pc = "done" => LiveProcesses = 0 /\ ~camera)

\* The loop has ended after a quit during the recording phase: cleanup has
\* terminated the capture process and released the camera.
C34_Witness ==
    /\ pc = "done"
    /\ ~running
    /\ current_state = "recording"
    /\ Called("recording_process.terminate")
    /\ Called("camera.release")
    /\ LiveProcesses = 0

====
